---- MODULE Spec2Model ----
(***************************************************************************)
(* Query orchestration of the regulatory compliance assistant:             *)
(* app/api.py (/chat streaming and /query synchronous endpoints, module    *)
(* initialisation), app/rag_module.py (RAGModule.query_rag_system),        *)
(* app/sonar_module.py (SonarModule.analyze_query and its retried upstream *)
(* request) and app/hint_module.py (HintModule.get_contextual_hints).      *)
(***************************************************************************)
EXTENDS Integers, Sequences, FiniteSets, TLC

(* ---------------------------------------------------------------- bounds *)
\* longest query text enumerated
MaxTextLen == 2
\* most matches the index returns for one query
MaxMatches == 2
\* most citation records one upstream answer is normalised into
MaxCites == 2
\* most vocabulary words joined into one text handed to a text function
MaxWords == 2

(* ------------------------------------------------------ program constants *)
\* @retry(stop=stop_after_attempt(3), ...)
MaxAttempts == 3

(* ------------------------------------------------------------- the state *)
VARIABLES
    env,                \* process environment: what the initialisers will find
    initialized,        \* api._initialized
    rag_initialized,    \* rag.initialized
    sonar_initialized,  \* sonar.initialized
    hint_initialized,   \* hint.initialized
    endpoint,           \* "chat" or "query": the handler serving the request
    query,              \* the Query body
    pc,                 \* position of the handler / event generator
    http_status,        \* 0 while undecided, then 200, 400 or 500
    stream,             \* the SSE events yielded so far, in order
    tasks,              \* the task kinds appended to `tasks`, in order
    rag_backend,        \* how the embedding + index lookup behaves for this query
    rag_state,          \* "none" | "settled"
    rag_result,         \* what rag.query_rag_system returned
    sonar_upstream,     \* how the Perplexity API behaves for the search request
    sonar_state,        \* "none" | "created" | "running" | "settled"
    sonar_attempts,     \* attempts made by SonarModule._make_api_request
    sonar_result,       \* what sonar.analyze_query returned or raised
    results,            \* what asyncio.gather returned
    i,                  \* index of the result being processed
    internal_citations,
    external_citations,
    hint_upstream,      \* how the Perplexity API behaves for the hint request
    hint_state,         \* "none" | "running" | "settled"
    hint_attempts,      \* attempts made by HintModule._make_api_request
    hint_response,      \* what hint.get_contextual_hints returned
    next_step_hint,
    final_response,     \* the terminal payload (/chat) or the returned body (/query)
    previous,           \* the request served before this one: what it was given and gave
    uploaded_documents, \* api.uploaded_documents: the ids it holds
    call,               \* a direct call of one capability function: its arguments
    ret                 \* what that call returned

vars == <<env, initialized, rag_initialized, sonar_initialized, hint_initialized,
          endpoint, query, pc, http_status, stream, tasks, rag_backend, rag_state,
          rag_result, sonar_upstream, sonar_state, sonar_attempts, sonar_result,
          results, i,
          internal_citations, external_citations, hint_upstream, hint_state,
          hint_attempts, hint_response, next_step_hint, final_response,
          previous, uploaded_documents, call, ret>>

modules == <<initialized, rag_initialized, sonar_initialized, hint_initialized>>
ragVars == <<rag_backend, rag_state, rag_result>>
sonarVars == <<sonar_upstream, sonar_state, sonar_attempts, sonar_result>>
request == <<endpoint, query>>
citations == <<internal_citations, external_citations>>
hintVars == <<hint_upstream, hint_state, hint_attempts, hint_response>>
direct == <<call, ret>>
main == <<env, initialized, rag_initialized, sonar_initialized, hint_initialized,
          endpoint, query, pc, http_status, stream, tasks, rag_backend, rag_state,
          rag_result, sonar_upstream, sonar_state, sonar_attempts, sonar_result,
          results, i, internal_citations, external_citations, hint_upstream,
          hint_state, hint_attempts, hint_response, next_step_hint, final_response,
          previous, uploaded_documents>>

(* --------------------------------------------------------------- values *)
None == "None"
Chars == {" ", "a"}
Texts == UNION {[1..n -> Chars] : n \in 0..MaxTextLen}

NoCount == -1
Event(name, count) == [name |-> name, count |-> count]

NoResponse == [status |-> "none"]
\* a gathered result: the value or the exception
Returned(value) == [exc |-> FALSE, value |-> value]
Raised == [exc |-> TRUE, value |-> <<>>]

\* no request was served before this one
NoRun == [ran |-> FALSE, endpoint |-> "none", http_status |-> 0, stream |-> <<>>,
          final_response |-> NoResponse,
          rag_backend |-> [ok |-> TRUE, n |-> 0],
          sonar_upstream |-> [failures |-> 0, n |-> 0],
          hint_upstream |-> [failures |-> 0, answer |-> "choices"]]

\* hint sentences of hint_module.py and api.py
GeneratedHint == "<choices[0].message.content>"
ReviewHint == "Review the provided citations and consider consulting relevant documentation for more details."
NoNextStepHint == "Could not generate a next step hint at this time. Please review the provided citations."
NoContextualHint == "Could not generate contextual hint at this time."
NoHints == "Could not generate hints at this time."

\* the index lookup: it raises, or it answers with n matches
RagBackends == {[ok |-> FALSE, n |-> 0]} \cup {[ok |-> TRUE, n |-> k] : k \in 0..MaxMatches}
\* an upstream request: `failures` attempts fail, the next one (if any is left)
\* answers; failures = MaxAttempts means no attempt succeeds
SonarUpstreams ==
    {[failures |-> MaxAttempts, n |-> 0]}
    \cup {[failures |-> f, n |-> k] : f \in 0..(MaxAttempts - 1), k \in 0..MaxCites}
HintUpstreams ==
    {[failures |-> MaxAttempts, answer |-> "none"]}
    \cup {[failures |-> f, answer |-> a] :
            f \in 0..(MaxAttempts - 1), a \in {"choices", "nochoices", "malformed"}}

Records(src, n) == [k \in 1..n |-> [src |-> src, idx |-> k]]

(* ------------------------------------------------------- pure functions *)
RECURSIVE lstrip(_)
lstrip(s) == IF s = <<>> THEN s
             ELSE IF Head(s) = " " THEN lstrip(Tail(s)) ELSE s

RECURSIVE rstrip(_)
rstrip(s) == IF s = <<>> THEN s
             ELSE IF s[Len(s)] = " " THEN rstrip(SubSeq(s, 1, Len(s) - 1)) ELSE s

\* str.strip()
strip(s) == rstrip(lstrip(s))

(* --------------------------------------------------------------- strings *)
\* Text that the code searches is a sequence of one-character strings.
UpperCase == <<"A", "B", "C", "D", "E", "F", "G", "H", "I", "J", "K", "L", "M",
               "N", "O", "P", "Q", "R", "S", "T", "U", "V", "W", "X", "Y", "Z">>
LowerCase == <<"a", "b", "c", "d", "e", "f", "g", "h", "i", "j", "k", "l", "m",
               "n", "o", "p", "q", "r", "s", "t", "u", "v", "w", "x", "y", "z">>
Digits == {"0", "1", "2", "3", "4", "5", "6", "7", "8", "9"}
Letters == {UpperCase[k] : k \in 1..26} \cup {LowerCase[k] : k \in 1..26}

lower_char(c) == IF \E k \in 1..26 : UpperCase[k] = c
                 THEN LowerCase[CHOOSE k \in 1..26 : UpperCase[k] = c]
                 ELSE c
\* str.lower()
lower(s) == [k \in 1..Len(s) |-> lower_char(s[k])]

\* `kw in s`
Contains(s, kw) ==
    \E k \in 1..(Len(s) - Len(kw) + 1) : SubSeq(s, k, k + Len(kw) - 1) = kw
\* any(keyword in s for keyword in kws)
ContainsAny(s, kws) == \E kw \in kws : Contains(s, kw)

Min(a, b) == IF a < b THEN a ELSE b

\* keywords of HintModule.get_hints
kw_gdpr == <<"g", "d", "p", "r">>
kw_data_protection == <<"d", "a", "t", "a", " ", "p", "r", "o", "t", "e", "c", "t", "i", "o", "n">>
kw_privacy == <<"p", "r", "i", "v", "a", "c", "y">>
kw_breach == <<"b", "r", "e", "a", "c", "h">>
kw_transfer == <<"t", "r", "a", "n", "s", "f", "e", "r">>
kw_cross_border == <<"c", "r", "o", "s", "s", "-", "b", "o", "r", "d", "e", "r">>
kw_sec == <<"s", "e", "c">>
kw_securities == <<"s", "e", "c", "u", "r", "i", "t", "i", "e", "s">>
kw_filing == <<"f", "i", "l", "i", "n", "g">>
kw_sox == <<"s", "o", "x">>
kw_sarbanes == <<"s", "a", "r", "b", "a", "n", "e", "s">>
kw_internal_controls == <<"i", "n", "t", "e", "r", "n", "a", "l", " ", "c", "o", "n", "t", "r", "o", "l", "s">>
kw_reporting == <<"r", "e", "p", "o", "r", "t", "i", "n", "g">>
kw_financial == <<"f", "i", "n", "a", "n", "c", "i", "a", "l">>

\* hints[:3]
TopHints == 3

BreachHints == <<"Implement automated breach detection systems",
                 "Create 72-hour notification templates for supervisory authorities",
                 "Develop breach assessment and documentation procedures">>
TransferHints == <<"Review adequacy decisions and Standard Contractual Clauses (SCCs)",
                   "Implement Binding Corporate Rules (BCRs) for intra-group transfers",
                   "Conduct Transfer Impact Assessments (TIAs) for third countries">>
GdprHints == <<"Map personal data flows and processing activities (Article 30 records)",
               "Conduct Data Protection Impact Assessments (DPIAs) for high-risk processing",
               "Implement privacy by design and by default measures">>
SecHints == <<"Review SEC Form 10-K filing requirements",
              "Consider materiality thresholds for disclosure",
              "Consult with legal counsel for securities compliance">>
SoxReportingHints == <<"Implement COSO framework for internal controls design",
                       "Document walkthrough procedures for key business processes",
                       "Establish quarterly management assessment testing protocols">>
SoxControlHints == <<"Map IT general controls (ITGC) and application controls",
                     "Create SOD (Segregation of Duties) matrices and monitoring",
                     "Implement continuous monitoring using GRC platforms">>
GenericHints == <<"Review relevant compliance documentation",
                  "Consider consulting with legal or compliance teams",
                  "Check for recent regulatory updates">>

\* the hints collected by the three `if` blocks and the generic fallback,
\* before the final slice
collected_hints(text) ==
    LET query_lower == lower(text)
        data_protection ==
            IF ContainsAny(query_lower, {kw_gdpr, kw_data_protection, kw_privacy})
            THEN IF Contains(query_lower, kw_breach) THEN BreachHints
                 ELSE IF Contains(query_lower, kw_transfer)
                         \/ Contains(query_lower, kw_cross_border) THEN TransferHints
                 ELSE GdprHints
            ELSE <<>>
        sec ==
            IF ContainsAny(query_lower, {kw_sec, kw_securities, kw_filing})
            THEN SecHints
            ELSE <<>>
        sox ==
            IF ContainsAny(query_lower, {kw_sox, kw_sarbanes, kw_internal_controls})
            THEN IF Contains(query_lower, kw_reporting)
                    \/ Contains(query_lower, kw_financial) THEN SoxReportingHints
                 ELSE SoxControlHints
            ELSE <<>>
        hints == data_protection \o sec \o sox
    IN IF hints = <<>> THEN GenericHints ELSE hints

\* get_hints without its final slice
get_hints_unsliced(text) == collected_hints(text)

\* HintModule.get_hints on an initialised module
get_hints(text) ==
    LET hints == collected_hints(text)
    IN SubSeq(hints, 1, Min(TopHints, Len(hints)))

\* hint_response = {} of process_query
NoHintResponse == [present |-> FALSE, basic_hints |-> <<>>, next_step_hint |-> None,
                   query |-> <<>>, error |-> FALSE]
\* the dict get_contextual_hints returns
HintResponse(text, hint) == [present |-> TRUE, basic_hints |-> get_hints(text),
                             next_step_hint |-> hint, query |-> text, error |-> FALSE]

\* generating although no citation was supplied
always_generate(internal_cites, external_cites) == TRUE

\* generating only when both lists hold citations
both_required(internal_cites, external_cites) ==
    internal_cites # <<>> /\ external_cites # <<>>

\* `if internal_cites or external_cites:` of get_contextual_hints
needs_generation(internal_cites, external_cites) ==
    internal_cites # <<>> \/ external_cites # <<>>

\* the backends answer as functions of the request: to a repeated request
\* they answer as they did before
SameAnswer(backend, before) == previous.ran => backend = before

\* `if not user_query.strip(): raise HTTPException(400)`
NoStripCheck(text) == text = <<>>
EmptyQuery(text) == strip(text) = <<>>

\* the search with `if not query:` as its only test of the query
query_rag_system_unstripped(ready, text, backend) ==
    IF ~ready THEN <<>>
    ELSE IF text = <<>> THEN <<>>
    ELSE IF ~backend.ok THEN <<>>
    ELSE Records("rag", backend.n)

\* RAGModule.query_rag_system: never raises, [] on any failure
query_rag_system(ready, text, backend) ==
    IF ~ready THEN <<>>
    ELSE IF strip(text) = <<>> THEN <<>>
    ELSE IF ~backend.ok THEN <<>>
    ELSE Records("rag", backend.n)

\* a summary whose total leaves the external citations out
Summary_without_external(internal, external) ==
    [internal_count |-> Len(internal),
     external_count |-> Len(external),
     total_citations |-> Len(internal)]

\* summary block of the final response
Summary(internal, external) ==
    [internal_count |-> Len(internal),
     external_count |-> Len(external),
     total_citations |-> Len(internal) + Len(external)]
(* ----------------------------------------------------------------- Init *)
\* the process right after import, before any request
Fresh ==
    /\ initialized = FALSE
    /\ rag_initialized = FALSE
    /\ sonar_initialized = FALSE
    /\ hint_initialized = FALSE
    /\ pc = "idle"
    /\ http_status = 0
    /\ stream = <<>>
    /\ tasks = <<>>
    /\ rag_backend = [ok |-> TRUE, n |-> 0]
    /\ rag_state = "none"
    /\ rag_result = <<>>
    /\ sonar_upstream = [failures |-> 0, n |-> 0]
    /\ sonar_state = "none"
    /\ sonar_attempts = 0
    /\ sonar_result = Returned(<<>>)
    /\ results = <<>>
    /\ i = 1
    /\ internal_citations = <<>>
    /\ external_citations = <<>>
    /\ hint_upstream = [failures |-> 0, answer |-> "choices"]
    /\ hint_state = "none"
    /\ hint_attempts = 0
    /\ hint_response = NoHintResponse
    /\ next_step_hint = None
    /\ final_response = NoResponse
    /\ previous = NoRun
    /\ uploaded_documents = {}

NoCall == [fn |-> "none"]
NoRet == [fn |-> "none"]

Init ==
    /\ env \in [pinecone_ok : BOOLEAN, perplexity_key : BOOLEAN]
    /\ endpoint \in {"chat", "query"}
    /\ query \in [text : Texts, use_rag : BOOLEAN, use_sonar : BOOLEAN,
                  use_hints : BOOLEAN, load_sample_data : BOOLEAN]
    /\ Fresh
    /\ call = NoCall
    /\ ret = NoRet

(* -------------------------------------------------- module initialisation *)
\* initialisation that counts as done only when every initializer succeeded
initialize_modules_until_ready ==
    IF initialized
    THEN UNCHANGED modules
    ELSE /\ rag_initialized' = env.pinecone_ok
         /\ sonar_initialized' = (env.perplexity_key \/ sonar_initialized)
         /\ hint_initialized' = (env.perplexity_key \/ hint_initialized)
         /\ initialized' = (env.pinecone_ok /\ env.perplexity_key)

\* initialize_modules(): rag.initialize() swallows its failure and leaves the
\* flag False; sonar.initialize() and hint.initialize() set the flag when the
\* API key is present and raise otherwise (caught here, flag untouched).
initialize_modules ==
    IF initialized
    THEN UNCHANGED modules
    ELSE /\ rag_initialized' = env.pinecone_ok
         /\ sonar_initialized' = (env.perplexity_key \/ sonar_initialized)
         /\ hint_initialized' = (env.perplexity_key \/ hint_initialized)
         /\ initialized' = TRUE

\* @app.on_event("startup")
startup_event ==
    /\ pc = "idle"
    /\ ~initialized
    /\ initialize_modules
    /\ UNCHANGED <<direct, previous, uploaded_documents, env, request, pc, http_status, stream, tasks, ragVars, sonarVars,
                   results, i, citations, hintVars, next_step_hint, final_response>>

(* ------------------------------------------------------ request handlers *)
\* a stream that puts each new event in front of the earlier ones
EmitInFront(e) == IF endpoint = "chat" THEN <<e>> \o stream ELSE stream

\* what the stream receives: /query yields nothing
Emit(e) == IF endpoint = "chat" THEN Append(stream, e) ELSE stream

\* POST /chat up to `return EventSourceResponse(event_generator())`
chat_endpoint ==
    /\ pc = "idle"
    /\ endpoint = "chat"
    /\ initialize_modules
    /\ IF EmptyQuery(query.text)
       THEN /\ http_status' = 400
            /\ pc' = "done"
       ELSE /\ http_status' = 200
            /\ pc' = "load_sample_data"
    /\ UNCHANGED <<direct, previous, uploaded_documents, env, request, stream, tasks, ragVars, sonarVars, results, i,
                   citations, hintVars, next_step_hint, final_response>>

\* POST /query up to the sample-data step
process_query ==
    /\ pc = "idle"
    /\ endpoint = "query"
    /\ initialize_modules
    /\ IF EmptyQuery(query.text)
       THEN /\ http_status' = 400
            /\ pc' = "done"
       ELSE /\ http_status' = 0
            /\ pc' = "load_sample_data"
    /\ UNCHANGED <<direct, previous, uploaded_documents, env, request, stream, tasks, ragVars, sonarVars, results, i,
                   citations, hintVars, next_step_hint, final_response>>

\* `if query.load_sample_data and rag.initialized: rag.load_sample_data()`:
\* RAGModule defines no load_sample_data, so the call raises AttributeError,
\* which /chat reports as a status event and /query only logs.
load_sample_data ==
    /\ pc = "load_sample_data"
    /\ stream' = IF query.load_sample_data /\ rag_initialized
                 THEN Emit(Event("Error loading sample data", NoCount))
                 ELSE stream
    /\ pc' = "create_tasks"
    /\ UNCHANGED <<direct, previous, uploaded_documents, env, modules, request, http_status, tasks, ragVars, sonarVars,
                   results, i, citations, hintVars, next_step_hint, final_response>>

\* tasks.append(("rag", rag.query_rag_system(q))): a plain call, it runs here
\* and its returned list is what is appended;
\* tasks.append(("sonar", sonar.analyze_query(q))): a coroutine object, not yet
\* started.
create_tasks ==
    /\ pc = "create_tasks"
    /\ internal_citations' = <<>>
    /\ external_citations' = <<>>
    /\ \E rb \in RagBackends, su \in SonarUpstreams :
          LET useRag == query.use_rag /\ rag_initialized
              useSonar == query.use_sonar /\ sonar_initialized
          IN /\ SameAnswer(rb, previous.rag_backend)
             /\ SameAnswer(su, previous.sonar_upstream)
             /\ rag_backend' = IF useRag THEN rb ELSE rag_backend
             /\ rag_result' = IF useRag
                              THEN query_rag_system(rag_initialized, query.text, rb)
                              ELSE rag_result
             /\ rag_state' = IF useRag THEN "settled" ELSE rag_state
             /\ sonar_upstream' = IF useSonar THEN su ELSE sonar_upstream
             /\ sonar_state' = IF useSonar THEN "created" ELSE sonar_state
             /\ tasks' = (IF useRag THEN <<"rag">> ELSE <<>>)
                         \o (IF useSonar THEN <<"sonar">> ELSE <<>>)
    /\ pc' = "gather"
    /\ UNCHANGED <<direct, previous, uploaded_documents, env, modules, request, http_status, stream, sonar_attempts,
                   sonar_result, results, i, hintVars, next_step_hint, final_response>>

\* what asyncio.gather accepts: a coroutine (async def analyze_query), not the
\* list that the plain def query_rag_system returned
Awaitable(kind) == kind = "sonar"

\* `if tasks: results = await asyncio.gather(*..., return_exceptions=True)`.
\* An argument that is no awaitable makes gather raise TypeError before any
\* coroutine is scheduled. analyze_query raises at once when its module is not
\* initialised.
gather ==
    /\ pc = "gather"
    /\ IF tasks = <<>>
       THEN /\ pc' = "hints"
            /\ UNCHANGED <<sonar_state, sonar_result>>
       ELSE IF \E k \in 1..Len(tasks) : ~Awaitable(tasks[k])
       THEN /\ pc' = "except"
            /\ UNCHANGED <<sonar_state, sonar_result>>
       ELSE /\ pc' = "await_gather"
            /\ sonar_state' = IF sonar_initialized THEN "running" ELSE "settled"
            /\ sonar_result' = IF sonar_initialized THEN sonar_result ELSE Raised
    /\ UNCHANGED <<direct, previous, uploaded_documents, env, modules, request, http_status, stream, tasks, ragVars,
                   sonar_upstream, sonar_attempts, results, i, citations, hintVars,
                   next_step_hint, final_response>>

\* the request without a retry: the first failed attempt is the failure
Sonar_request_without_retry ==
    /\ pc = "await_gather"
    /\ sonar_state = "running"
    /\ sonar_attempts < MaxAttempts
    /\ sonar_attempts' = sonar_attempts + 1
    /\ sonar_state' = "settled"
    /\ sonar_result' = IF sonar_attempts < sonar_upstream.failures
                       THEN Returned(<<>>)
                       ELSE Returned(Records("sonar", sonar_upstream.n))
    /\ UNCHANGED <<direct, previous, uploaded_documents, env, modules, request, pc, http_status, stream, tasks, ragVars,
                   sonar_upstream, results, i, citations, hintVars, next_step_hint,
                   final_response>>

\* the request retried without a limit: a failed attempt is not counted
Sonar_request_retried_forever ==
    /\ pc = "await_gather"
    /\ sonar_state = "running"
    /\ IF sonar_upstream.failures > 0
       THEN UNCHANGED <<sonar_attempts, sonar_state, sonar_result>>
       ELSE /\ sonar_attempts' = sonar_attempts + 1
            /\ sonar_state' = "settled"
            /\ sonar_result' = Returned(Records("sonar", sonar_upstream.n))
    /\ UNCHANGED <<direct, previous, uploaded_documents, env, modules, request, pc, http_status, stream, tasks,
                   ragVars, sonar_upstream, results, i, citations, hintVars,
                   next_step_hint, final_response>>

\* One attempt of SonarModule._make_api_request inside
\* fetch_perplexity_sonar_citations. A failed attempt is retried until
\* MaxAttempts; then tenacity raises RetryError, which fetch catches and
\* returns the (empty) list; analyze_query wraps the list in its dict.
Sonar_make_api_request ==
    /\ pc = "await_gather"
    /\ sonar_state = "running"
    /\ sonar_attempts < MaxAttempts
    /\ sonar_attempts' = sonar_attempts + 1
    /\ IF sonar_attempts < sonar_upstream.failures
       THEN IF sonar_attempts + 1 = MaxAttempts
            THEN /\ sonar_state' = "settled"
                 /\ sonar_result' = Returned(<<>>)
            ELSE UNCHANGED <<sonar_state, sonar_result>>
       ELSE /\ sonar_state' = "settled"
            /\ sonar_result' = Returned(Records("sonar", sonar_upstream.n))
    /\ UNCHANGED <<direct, previous, uploaded_documents, env, modules, request, pc, http_status, stream, tasks, ragVars,
                   sonar_upstream, results, i, citations, hintVars, next_step_hint,
                   final_response>>

\* gather resuming the handler without waiting for the task to settle
gather_returns_unsettled ==
    /\ pc = "await_gather"
    /\ results' = <<sonar_result>>
    /\ i' = 1
    /\ pc' = "process_results"
    /\ UNCHANGED <<direct, previous, uploaded_documents, env, modules, request, http_status, stream, tasks, ragVars,
                   sonarVars, citations, hintVars, next_step_hint, final_response>>

\* gather resumes the handler once every awaited task has settled
gather_returns ==
    /\ pc = "await_gather"
    /\ sonar_state = "settled"
    /\ results' = <<sonar_result>>
    /\ i' = 1
    /\ pc' = "process_results"
    /\ UNCHANGED <<direct, previous, uploaded_documents, env, modules, request, http_status, stream, tasks, ragVars,
                   sonarVars, citations, hintVars, next_step_hint, final_response>>

ModuleError(task_type) ==
    IF task_type = "rag" THEN "rag module error" ELSE "sonar module error"

\* one iteration of `for i, (task_type, result) in enumerate(zip(...))`
process_results ==
    /\ pc = "process_results"
    /\ i <= Len(results)
    /\ LET task_type == tasks[i]
           result == results[i]
       IN IF result.exc
          THEN /\ stream' = Emit(Event(ModuleError(task_type), NoCount))
               /\ UNCHANGED citations
          ELSE IF task_type = "rag"
          THEN /\ internal_citations' = result.value
               /\ stream' = Emit(Event("Internal citations retrieved", Len(result.value)))
               /\ UNCHANGED external_citations
          ELSE /\ external_citations' = result.value
               /\ stream' = Emit(Event("External citations retrieved", Len(result.value)))
               /\ UNCHANGED internal_citations
    /\ i' = i + 1
    /\ pc' = IF i = Len(results) THEN "hints" ELSE pc
    /\ UNCHANGED <<direct, previous, uploaded_documents, env, modules, request, http_status, tasks, ragVars, sonarVars,
                   results, hintVars, next_step_hint, final_response>>
(* ------------------------------------------------------------------ hints *)
\* HintModule.generate_next_step_hint after a successful upstream request:
\* the first choice's text, the review sentence when there is no choice, and
\* the fallback sentence when reading the answer raises (caught at line 119)
next_step_from(answer) ==
    IF answer = "choices" THEN GeneratedHint
    ELSE IF answer = "nochoices" THEN ReviewHint
    ELSE NoNextStepHint

\* `if query.use_hints and hint.initialized: await hint.get_contextual_hints(...)`.
\* get_contextual_hints calls generate_next_step_hint only `if internal_cites
\* or external_cites`; otherwise it returns at once with next_step_hint None.
hints ==
    /\ pc = "hints"
    /\ IF ~(query.use_hints /\ hint_initialized)
       THEN /\ pc' = "final"
            /\ UNCHANGED hintVars
       ELSE IF ~needs_generation(internal_citations, external_citations)
       THEN /\ pc' = "await_hint"
            /\ hint_state' = "settled"
            /\ hint_response' = HintResponse(query.text, None)
            /\ UNCHANGED <<hint_upstream, hint_attempts>>
       ELSE /\ pc' = "await_hint"
            /\ hint_state' = "running"
            /\ \E hu \in HintUpstreams :
                  SameAnswer(hu, previous.hint_upstream) /\ hint_upstream' = hu
            /\ UNCHANGED <<hint_attempts, hint_response>>
    /\ UNCHANGED <<direct, previous, uploaded_documents, env, modules, request, http_status, stream, tasks, ragVars,
                   sonarVars, results, i, citations, next_step_hint, final_response>>

\* One attempt of HintModule._make_api_request inside generate_next_step_hint.
\* After MaxAttempts failed attempts tenacity raises RetryError, which
\* generate_next_step_hint catches and answers with its fallback sentence.
Hint_make_api_request ==
    /\ pc = "await_hint"
    /\ hint_state = "running"
    /\ hint_attempts < MaxAttempts
    /\ hint_attempts' = hint_attempts + 1
    /\ IF hint_attempts < hint_upstream.failures
       THEN IF hint_attempts + 1 = MaxAttempts
            THEN /\ hint_state' = "settled"
                 /\ hint_response' = HintResponse(query.text, NoNextStepHint)
            ELSE UNCHANGED <<hint_state, hint_response>>
       ELSE /\ hint_state' = "settled"
            /\ hint_response' = HintResponse(query.text, next_step_from(hint_upstream.answer))
    /\ UNCHANGED <<direct, previous, uploaded_documents, env, modules, request, pc, http_status, stream, tasks, ragVars,
                   sonarVars, results, i, citations, hint_upstream, next_step_hint,
                   final_response>>

\* get_contextual_hints raises only through its first statement
\* (`if not self.initialized: raise RuntimeError`); every later failure is
\* caught inside it.
get_contextual_hints_raises(ready) == ~ready

\* the handler resumes after `await hint.get_contextual_hints(...)`:
\* /chat copies the hint and yields its status event (the except branch yields
\* the error status instead); /query keeps the returned dict (or {"error"}).
hints_returned ==
    /\ pc = "await_hint"
    /\ hint_state = "settled"
    /\ IF get_contextual_hints_raises(hint_initialized)
       THEN /\ next_step_hint' = IF endpoint = "chat" THEN NoHints ELSE next_step_hint
            /\ stream' = Emit(Event("Error generating hints", NoCount))
            /\ hint_response' = IF endpoint = "chat" THEN hint_response
                                ELSE [present |-> TRUE, basic_hints |-> <<>>,
                                      next_step_hint |-> None, query |-> <<>>,
                                      error |-> TRUE]
       ELSE /\ next_step_hint' = IF endpoint = "chat" THEN hint_response.next_step_hint
                                 ELSE next_step_hint
            /\ stream' = Emit(Event("Next step hint generated", NoCount))
            /\ UNCHANGED hint_response
    /\ pc' = "final"
    /\ UNCHANGED <<direct, previous, uploaded_documents, env, modules, request, http_status, tasks, ragVars, sonarVars,
                   results, i, citations, hint_upstream, hint_state, hint_attempts,
                   final_response>>

(* --------------------------------------------------------------- terminal *)
\* the final yield followed by a statement that raises into the except branch
yield_final_response_raising ==
    /\ pc = "final"
    /\ endpoint = "chat"
    /\ final_response' = [query |-> query.text,
                          internal_citations |-> internal_citations,
                          external_citations |-> external_citations,
                          next_step_hint |-> next_step_hint,
                          summary |-> Summary(internal_citations, external_citations),
                          status |-> "completed"]
    /\ stream' = Append(stream, Event("completed", NoCount))
    /\ pc' = "except"
    /\ UNCHANGED <<direct, previous, uploaded_documents, env, modules, request, http_status, tasks, ragVars, sonarVars,
                   results, i, citations, hintVars, next_step_hint>>

\* /chat: `yield f"data: {json.dumps(final_response)}\n\n"`
yield_final_response ==
    /\ pc = "final"
    /\ endpoint = "chat"
    /\ final_response' = [query |-> query.text,
                          internal_citations |-> internal_citations,
                          external_citations |-> external_citations,
                          next_step_hint |-> next_step_hint,
                          summary |-> Summary(internal_citations, external_citations),
                          status |-> "completed"]
    /\ stream' = Append(stream, Event("completed", NoCount))
    /\ pc' = "done"
    /\ UNCHANGED <<direct, previous, uploaded_documents, env, modules, request, http_status, tasks, ragVars, sonarVars,
                   results, i, citations, hintVars, next_step_hint>>

\* /chat: `except Exception as e:` of event_generator yields the error response
yield_error_response ==
    /\ pc = "except"
    /\ endpoint = "chat"
    /\ stream' = Append(stream, Event("Internal server error", NoCount))
    /\ pc' = "done"
    /\ UNCHANGED <<direct, previous, uploaded_documents, env, modules, request, http_status, tasks, ragVars, sonarVars,
                   results, i, citations, hintVars, next_step_hint, final_response>>

\* /query: `return {...}`
return_response ==
    /\ pc = "final"
    /\ endpoint = "query"
    /\ final_response' = [query |-> query.text,
                          internal_citations |-> internal_citations,
                          external_citations |-> external_citations,
                          hints |-> hint_response,
                          summary |-> Summary(internal_citations, external_citations)]
    /\ http_status' = 200
    /\ pc' = "done"
    /\ UNCHANGED <<direct, previous, uploaded_documents, env, modules, request, stream, tasks, ragVars, sonarVars,
                   results, i, citations, hintVars, next_step_hint>>

\* /query answering from its except branch with the body gathered so far
return_partial_response ==
    /\ pc = "except"
    /\ endpoint = "query"
    /\ final_response' = [query |-> query.text,
                          internal_citations |-> internal_citations,
                          external_citations |-> external_citations,
                          hints |-> hint_response,
                          summary |-> Summary(internal_citations, external_citations)]
    /\ http_status' = 200
    /\ pc' = "done"
    /\ UNCHANGED <<direct, previous, uploaded_documents, env, modules, request, stream, tasks, ragVars,
                   sonarVars, results, i, citations, hintVars, next_step_hint>>

\* /query: an except branch that also marks the search capability not ready
raise_internal_error_disabling_rag ==
    /\ pc = "except"
    /\ endpoint = "query"
    /\ http_status' = 500
    /\ pc' = "done"
    /\ rag_initialized' = FALSE
    /\ UNCHANGED <<direct, previous, uploaded_documents, env, initialized, sonar_initialized,
                   hint_initialized, request, stream, tasks, ragVars, sonarVars,
                   results, i, citations, hintVars, next_step_hint, final_response>>

\* /query: `except Exception as e: raise HTTPException(status_code=500, ...)`
raise_internal_error ==
    /\ pc = "except"
    /\ endpoint = "query"
    /\ http_status' = 500
    /\ pc' = "done"
    /\ UNCHANGED <<direct, previous, uploaded_documents, env, modules, request, stream, tasks, ragVars, sonarVars,
                   results, i, citations, hintVars, next_step_hint, final_response>>

(* ------------------------------------------------------------------- Spec *)
Next ==
    \/ startup_event
    \/ chat_endpoint
    \/ process_query
    \/ load_sample_data
    \/ create_tasks
    \/ gather
    \/ Sonar_make_api_request
    \/ gather_returns
    \/ process_results
    \/ hints
    \/ Hint_make_api_request
    \/ hints_returned
    \/ yield_final_response
    \/ yield_error_response
    \/ return_response
    \/ raise_internal_error

Spec == Init /\ [][Next]_vars

\* The event loop runs whatever is ready, and every attempt of an upstream
\* request ends (aiohttp.ClientTimeout): a step that can be taken is taken.
LiveSpec == Spec /\ WF_vars(Next)

(* ================== the same request, served a second time =============== *)
\* The process serves one request after another. Here the client repeats its
\* request (same text and options) to either endpoint once the first is over:
\* the locals of the handler start afresh, the module globals are kept.
next_request ==
    /\ pc = "done"
    /\ ~previous.ran
    /\ previous' = [ran |-> TRUE, endpoint |-> endpoint, http_status |-> http_status,
                    stream |-> stream, final_response |-> final_response,
                    rag_backend |-> rag_backend, sonar_upstream |-> sonar_upstream,
                    hint_upstream |-> hint_upstream]
    /\ endpoint' \in {"chat", "query"}
    /\ pc' = "idle"
    /\ http_status' = 0
    /\ stream' = <<>>
    /\ tasks' = <<>>
    /\ rag_backend' = [ok |-> TRUE, n |-> 0]
    /\ rag_state' = "none"
    /\ rag_result' = <<>>
    /\ sonar_upstream' = [failures |-> 0, n |-> 0]
    /\ sonar_state' = "none"
    /\ sonar_attempts' = 0
    /\ sonar_result' = Returned(<<>>)
    /\ results' = <<>>
    /\ i' = 1
    /\ internal_citations' = <<>>
    /\ external_citations' = <<>>
    /\ hint_upstream' = [failures |-> 0, answer |-> "choices"]
    /\ hint_state' = "none"
    /\ hint_attempts' = 0
    /\ hint_response' = NoHintResponse
    /\ next_step_hint' = None
    /\ final_response' = NoResponse
    /\ UNCHANGED <<direct, uploaded_documents, env, modules, query>>

RerunNext ==
    \/ Next
    \/ next_request

RerunSpec == Init /\ [][RerunNext]_vars
(* ============ /populate-sample-data, /search, /analyze-compliance ======== *)
\* compliance scores are counted in tenths: base_score = 0.8,
\* min(len(issues) * 0.1, 0.6), and the pass mark of `score > 0.7`
BaseScore == 8
MaxPenalty == 6
PassScore == 7
\* issues[:5], recommendations[:5], citations[:10]
TopIssues == 5
TopRecommendations == 5
TopCitations == 10

\* the ids stored by /populate-sample-data
SampleDocuments == {"sample-gdpr-guide", "sample-sox-policy", "sample-ccpa-assessment",
                    "sample-hipaa-manual", "sample-iso27001-procedure"}
\* f"Analysis error: {str(e)}" for the TypeError of awaiting a list
AnalysisError == "Analysis error: object list can't be used in 'await' expression"
\* the recommendations given when the analysis found none
DefaultRecommendations ==
    <<"Review document against {regulation} requirements",
      "Ensure all mandatory {regulation} clauses are addressed",
      "Consider consulting with compliance experts for {regulation}">>
\* the text given to rag.query_rag_system by analyze_compliance: never blank
AnalysisPrompt == <<"a">>
ExternalRegulation == "External Regulation"

\* s[:n]
Prefix(s, n) == SubSeq(s, 1, Min(Len(s), n))

\* max(base_score - issue_penalty, 0.0)
compliance_score(issues) ==
    LET issue_penalty == Min(Len(issues), MaxPenalty)
    IN  IF BaseScore - issue_penalty > 0 THEN BaseScore - issue_penalty ELSE 0

\* a verdict read off the score alone
compliant_by_score(score, issues) == score >= PassScore

\* `compliant = score > 0.7 and len(issues) == 0`. The comparison is made on
\* binary floats: 0.8 - 0.1 is 0.7000000000000001, which is above 0.7, and
\* 0.8 - 0.2 is 0.6000000000000001, which is not; in tenths the test passes
\* from PassScore upwards.
compliant(score, issues) == score >= PassScore /\ Len(issues) = 0

ComplianceAnalysisResponse(issues, recommendations, cites) ==
    [status |-> "analysis",
     compliant |-> compliant(compliance_score(issues), issues),
     score |-> compliance_score(issues),
     issues |-> Prefix(issues, TopIssues),
     recommendations |-> Prefix(recommendations, TopRecommendations),
     citations |-> Prefix(cites, TopCitations)]

\* SearchResult(category="External Regulation", relevance_score=0.7) of one
\* external citation
SearchResult(citation) == [category |-> ExternalRegulation, citation |-> citation]

RECURSIVE filter_categories(_, _)
\* `[r for r in results if r.category in request.categories]`
filter_categories(found, categories) ==
    IF found = <<>> THEN <<>>
    ELSE (IF Head(found).category \in categories THEN <<Head(found)>> ELSE <<>>)
         \o filter_categories(Tail(found), categories)

\* rag.query_rag_system(text) called inside a handler: it returns its list
query_rag_system_called(rb, text) ==
    /\ rag_backend' = rb
    /\ rag_state' = "settled"
    /\ rag_result' = query_rag_system(TRUE, text, rb)

\* `await sonar.analyze_query(text)` inside a handler, to its end: the
\* request is attempted until it answers or MaxAttempts attempts have failed
analyze_query_awaited(su) ==
    /\ sonar_upstream' = su
    /\ sonar_attempts' = Min(su.failures + 1, MaxAttempts)
    /\ sonar_state' = "settled"
    /\ sonar_result' = Returned(IF su.failures < MaxAttempts
                                THEN Records("sonar", su.n) ELSE <<>>)

\* POST /populate-sample-data: it does not initialise the modules
populate_sample_data ==
    /\ pc = "idle"
    /\ uploaded_documents' = uploaded_documents \cup SampleDocuments
    /\ UNCHANGED <<direct, previous, env, modules, request, pc, http_status, stream, tasks,
                   ragVars, sonarVars, results, i, citations, hintVars, next_step_hint,
                   final_response>>

\* POST /search. `await rag.query_rag_system(...)` awaits a list: the
\* TypeError is caught by the inner except and no internal result is added.
\* The external citations fill the max_results slots; every result has the
\* same relevance_score, so the (stable) sort keeps their order.
search_regulatory_content ==
    /\ pc = "idle"
    /\ endpoint = "search"
    /\ initialize_modules
    /\ IF EmptyQuery(query.text)
       THEN /\ http_status' = 400
            /\ final_response' = NoResponse
            /\ UNCHANGED <<ragVars, sonarVars>>
       ELSE \E rb \in RagBackends, su \in SonarUpstreams :
            /\ IF rag_initialized'
               THEN query_rag_system_called(rb, query.text)
               ELSE UNCHANGED ragVars
            /\ IF sonar_initialized' /\ 0 < query.max_results
               THEN analyze_query_awaited(su)
               ELSE UNCHANGED sonarVars
            /\ LET external == IF sonar_state' = "settled"
                               THEN Prefix(sonar_result'.value, query.max_results)
                               ELSE <<>>
                   found == [k \in 1..Len(external) |-> SearchResult(external[k])]
               IN  final_response' =
                       [status |-> "results",
                        results |-> IF query.categories # {}
                                    THEN filter_categories(found, query.categories)
                                    ELSE found]
            /\ http_status' = 200
    /\ pc' = "done"
    /\ UNCHANGED <<direct, previous, uploaded_documents, env, request, stream, tasks, results,
                   i, citations, hintVars, next_step_hint>>

\* POST /analyze-compliance. An unknown id is answered with 404 before any
\* capability is asked. With the search capability ready,
\* `await rag.query_rag_system(query)` awaits a list: the TypeError leaves the
\* inner try at once (the external search is skipped) and becomes the one
\* issue. The external citations carry no 'content', so no recommendation is
\* read from them and the default ones are given.
analyze_compliance ==
    /\ pc = "idle"
    /\ endpoint = "analyze-compliance"
    /\ initialize_modules
    /\ IF query.document_id \notin uploaded_documents
       THEN /\ http_status' = 404
            /\ final_response' = NoResponse
            /\ UNCHANGED <<ragVars, sonarVars>>
       ELSE \E rb \in RagBackends, su \in SonarUpstreams :
            LET raised == rag_initialized' /\ ~Awaitable("rag")
            IN  /\ IF rag_initialized'
                   THEN query_rag_system_called(rb, AnalysisPrompt)
                   ELSE UNCHANGED ragVars
                /\ IF sonar_initialized' /\ ~raised
                   THEN analyze_query_awaited(su)
                   ELSE UNCHANGED sonarVars
                /\ final_response' = ComplianceAnalysisResponse(
                       IF raised THEN <<AnalysisError>> ELSE <<>>,
                       DefaultRecommendations,
                       IF sonar_state' = "settled" THEN sonar_result'.value ELSE <<>>)
                /\ http_status' = 200
    /\ pc' = "done"
    /\ UNCHANGED <<direct, previous, uploaded_documents, env, request, stream, tasks, results,
                   i, citations, hintVars, next_step_hint>>

\* the process serving any of its endpoints
ServiceInit ==
    /\ env \in [pinecone_ok : BOOLEAN, perplexity_key : BOOLEAN]
    /\ \/ /\ endpoint \in {"chat", "query"}
          /\ query \in [text : Texts, use_rag : BOOLEAN, use_sonar : BOOLEAN,
                        use_hints : BOOLEAN, load_sample_data : BOOLEAN]
       \/ /\ endpoint = "search"
          /\ query \in [text : Texts, max_results : 0..MaxCites,
                        categories : {{}, {ExternalRegulation}, {"Regulation"}}]
       \/ /\ endpoint = "analyze-compliance"
          /\ query \in [document_id : {"sample-gdpr-guide", "unknown"},
                        regulation : {"GDPR"}]
    /\ Fresh
    /\ call = NoCall
    /\ ret = NoRet

\* uploaded_documents is read by /analyze-compliance only: the sample
\* documents are populated in the runs that serve it
ServiceNext ==
    \/ endpoint \in {"chat", "query"} /\ RerunNext
    \/ endpoint = "analyze-compliance" /\ populate_sample_data
    \/ search_regulatory_content
    \/ analyze_compliance

ServiceSpec == ServiceInit /\ [][ServiceNext]_vars
(* ================== direct calls of the capability functions ============= *)
\* The functions of the three modules are also called directly (demo.py, the
\* /search and /analyze-compliance handlers); here each is applied once to
\* arguments drawn from a vocabulary.
RECURSIVE join(_)
\* " ".join(words)
join(words) == IF words = <<>> THEN <<>>
               ELSE IF Len(words) = 1 THEN words[1]
               ELSE words[1] \o <<" ">> \o join(Tail(words))
Phrases(vocabulary) ==
    {join(words) : words \in UNION {[1..n -> vocabulary] : n \in 0..MaxWords}}

Result(fn, value) == [fn |-> fn, exc |-> FALSE, value |-> value]
Raises(fn) == [fn |-> fn, exc |-> TRUE, value |-> <<>>]

\* query texts for get_hints
HintWords == {
    <<"H", "o", "w">>,
    <<"G", "D", "P", "R">>,
    <<"p", "r", "i", "v", "a", "c", "y">>,
    <<"d", "a", "t", "a", " ", "p", "r", "o", "t", "e", "c", "t", "i", "o", "n">>,
    <<"b", "r", "e", "a", "c", "h">>,
    <<"t", "r", "a", "n", "s", "f", "e", "r">>,
    <<"c", "r", "o", "s", "s", "-", "b", "o", "r", "d", "e", "r">>,
    <<"S", "E", "C">>,
    <<"s", "e", "c", "u", "r", "i", "t", "i", "e", "s">>,
    <<"f", "i", "l", "i", "n", "g">>,
    <<"S", "O", "X">>,
    <<"S", "a", "r", "b", "a", "n", "e", "s">>,
    <<"i", "n", "t", "e", "r", "n", "a", "l", " ", "c", "o", "n", "t", "r", "o", "l", "s">>,
    <<"r", "e", "p", "o", "r", "t", "i", "n", "g">>,
    <<"f", "i", "n", "a", "n", "c", "i", "a", "l">>}
\* "How do we handle a GDPR breach?"
BreachQuestion == <<"H", "o", "w", " ", "d", "o", " ", "w", "e", " ", "h", "a", "n", "d", "l", "e", " ", "a", " ", "G", "D", "P", "R", " ", "b", "r", "e", "a", "c", "h", "?">>
HintQueries == Phrases(HintWords) \cup {BreachQuestion}

(* ------------------------------------------- SonarModule, pure functions *)
\* keyword and domain lists of SonarModule._determine_citation_type
SecKeywords == {<<"s", "e", "c">>, <<"s", "e", "c", "u", "r", "i", "t", "i", "e", "s">>, <<"e", "x", "c", "h", "a", "n", "g", "e">>}
GdprKeywords == {<<"g", "d", "p", "r">>, <<"g", "e", "n", "e", "r", "a", "l", " ", "d", "a", "t", "a", " ", "p", "r", "o", "t", "e", "c", "t", "i", "o", "n">>}
SoxKeywords == {<<"s", "o", "x">>, <<"s", "a", "r", "b", "a", "n", "e", "s">>, <<"o", "x", "l", "e", "y">>}
dom_sec_gov == <<"s", "e", "c", ".", "g", "o", "v">>
dom_europa_eu == <<"e", "u", "r", "o", "p", "a", ".", "e", "u">>
ComplianceKeywords == {<<"r", "e", "g", "u", "l", "a", "t", "i", "o", "n">>, <<"c", "o", "m", "p", "l", "i", "a", "n", "c", "e">>, <<"l", "e", "g", "a", "l">>}
CitationTypes == {"SEC", "GDPR", "SOX", "Compliance", "External Citation"}

\* the classification with the GDPR keywords tested before the SEC keywords
gdpr_before_sec(title, url) ==
    LET title_lower == lower(title)
        url_lower == lower(url)
    IN  IF ContainsAny(title_lower, GdprKeywords) THEN "GDPR"
        ELSE IF ContainsAny(title_lower, SecKeywords) THEN "SEC"
        ELSE IF ContainsAny(title_lower, SoxKeywords) THEN "SOX"
        ELSE IF ContainsAny(url_lower, {dom_sec_gov, dom_europa_eu})
             THEN IF Contains(url_lower, dom_sec_gov) THEN "SEC" ELSE "GDPR"
        ELSE IF ContainsAny(title_lower, ComplianceKeywords) THEN "Compliance"
        ELSE "External Citation"

\* SonarModule._determine_citation_type
determine_citation_type(title, url) ==
    LET title_lower == lower(title)
        url_lower == lower(url)
    IN  IF ContainsAny(title_lower, SecKeywords) THEN "SEC"
        ELSE IF ContainsAny(title_lower, GdprKeywords) THEN "GDPR"
        ELSE IF ContainsAny(title_lower, SoxKeywords) THEN "SOX"
        ELSE IF ContainsAny(url_lower, {dom_sec_gov, dom_europa_eu})
             THEN IF Contains(url_lower, dom_sec_gov) THEN "SEC" ELSE "GDPR"
        ELSE IF ContainsAny(title_lower, ComplianceKeywords) THEN "Compliance"
        ELSE "External Citation"

\* titles and urls a citation is classified by
TitleWords == {
    <<"S", "E", "C">>,
    <<"S", "e", "c", "u", "r", "i", "t", "i", "e", "s">>,
    <<"E", "x", "c", "h", "a", "n", "g", "e">>,
    <<"G", "D", "P", "R">>,
    <<"G", "e", "n", "e", "r", "a", "l", " ", "D", "a", "t", "a", " ", "P", "r", "o", "t", "e", "c", "t", "i", "o", "n">>,
    <<"S", "O", "X">>,
    <<"S", "a", "r", "b", "a", "n", "e", "s">>,
    <<"O", "x", "l", "e", "y">>,
    <<"R", "e", "g", "u", "l", "a", "t", "i", "o", "n">>,
    <<"c", "o", "m", "p", "l", "i", "a", "n", "c", "e">>,
    <<"L", "e", "g", "a", "l">>,
    <<"A", "c", "t">>,
    <<"o", "f">>
}
Titles == Phrases(TitleWords)
NoUrl == <<"#">>
Urls == {NoUrl,
         <<"h", "t", "t", "p", "s", ":", "/", "/", "w", "w", "w", ".", "s", "e", "c", ".", "g", "o", "v", "/", "r">>,
         <<"h", "t", "t", "p", "s", ":", "/", "/", "E", "C", ".", "E", "u", "r", "o", "p", "a", ".", "e", "u", "/">>,
         <<"h", "t", "t", "p", "s", ":", "/", "/", "x", ".", "o", "r", "g">>}

\* the elements of a regular expression: a literal (ignoring case under
\* re.IGNORECASE, or exact), an optional character of
\* a class, one-or-more and zero-or-more characters of a class
Lit(text) == [kind |-> "lit", text |-> text, class |-> {}]
Exact(text) == [kind |-> "exact", text |-> text, class |-> {}]
Opt(class) == [kind |-> "opt", text |-> <<>>, class |-> class]
Plus(class) == [kind |-> "plus", text |-> <<>>, class |-> class]
Star(class) == [kind |-> "star", text |-> <<>>, class |-> class]
Separator == {"-", " "}

\* citation_patterns of fetch_perplexity_sonar_citations; under re.IGNORECASE
\* [A-Z] takes letters of both cases
citation_patterns == <<
    <<Lit(<<"S", "E", "C">>), Opt(Separator), Plus(Digits), Opt(Separator), Star(Digits)>>,
    <<Lit(<<"G", "D", "P", "R">>), Opt(Separator), Lit(<<"A", "r", "t", "i", "c", "l", "e">>), Opt(Separator), Plus(Digits)>>,
    <<Lit(<<"S", "O", "X">>), Opt(Separator), Lit(<<"S", "e", "c", "t", "i", "o", "n">>), Opt(Separator), Plus(Digits)>>,
    <<Lit(<<"R", "e", "g", "u", "l", "a", "t", "i", "o", "n">>), Opt(Separator), Plus(Letters)>> >>

\* the end of the longest run of characters of a class from position k
RECURSIVE run(_, _, _)
run(class, s, k) ==
    IF k <= Len(s) /\ s[k] \in class THEN run(class, s, k + 1) ELSE k

\* the position after the match of a pattern at position k, 0 if there is none
\* (re.IGNORECASE; an optional element is tried first, then skipped; the
\* repetitions of these patterns are followed by nothing or by elements that
\* match the empty string or another class, so the longest run is the match)
RECURSIVE match_at(_, _, _)
match_at(pattern, s, k) ==
    IF pattern = <<>> THEN k
    ELSE LET e == Head(pattern)
             rest == Tail(pattern)
         IN  IF e.kind = "lit"
             THEN IF /\ k + Len(e.text) - 1 <= Len(s)
                     /\ lower(SubSeq(s, k, k + Len(e.text) - 1)) = lower(e.text)
                  THEN match_at(rest, s, k + Len(e.text))
                  ELSE 0
             ELSE IF e.kind = "exact"
             THEN IF /\ k + Len(e.text) - 1 <= Len(s)
                     /\ SubSeq(s, k, k + Len(e.text) - 1) = e.text
                  THEN match_at(rest, s, k + Len(e.text))
                  ELSE 0
             ELSE IF e.kind = "opt"
             THEN LET taken == IF k <= Len(s) /\ s[k] \in e.class
                               THEN match_at(rest, s, k + 1) ELSE 0
                  IN  IF taken # 0 THEN taken ELSE match_at(rest, s, k)
             ELSE IF e.kind = "plus"
             THEN IF run(e.class, s, k) > k
                  THEN match_at(rest, s, run(e.class, s, k)) ELSE 0
             ELSE match_at(rest, s, run(e.class, s, k))

\* re.findall(pattern, s, re.IGNORECASE) from position k: the matches, left
\* to right, not overlapping
RECURSIVE findall(_, _, _)
findall(pattern, s, k) ==
    IF k > Len(s) THEN <<>>
    ELSE IF match_at(pattern, s, k) # 0
         THEN <<SubSeq(s, k, match_at(pattern, s, k) - 1)>>
              \o findall(pattern, s, match_at(pattern, s, k))
         ELSE findall(pattern, s, k + 1)

\* str.replace(' ', '+')
plus_for_space(s) == [k \in 1..Len(s) |-> IF s[k] = " " THEN "+" ELSE s[k]]

ReferencePrefix == <<"R", "e", "g", "u", "l", "a", "t", "o", "r", "y", " ", "R", "e", "f", "e", "r", "e", "n", "c", "e", ":", " ">>
SearchUrl == <<"h", "t", "t", "p", "s", ":", "/", "/", "w", "w", "w", ".", "s", "e", "c", ".", "g", "o", "v", "/", "s", "e", "a", "r", "c", "h", "?", "q", "u", "e", "r", "y", "=">>
\* the record appended for a match
RegulatoryReference(m) ==
    [title |-> ReferencePrefix \o m,
     date |-> None,
     url |-> SearchUrl \o plus_for_space(m),
     type |-> "Regulatory Reference"]

\* any(match.lower() in cite['title'].lower() for cite in normalized_citations)
already_cited(m, normalized_citations) ==
    \E c \in 1..Len(normalized_citations) :
        Contains(lower(normalized_citations[c].title), lower(m))

\* appending a record for every match, cited already or not
RECURSIVE append_all_matches(_, _)
append_all_matches(matches, normalized_citations) ==
    IF matches = <<>> THEN normalized_citations
    ELSE append_all_matches(Tail(matches),
                            Append(normalized_citations,
                                   RegulatoryReference(Head(matches))))

\* `for match in matches: if not any(...): normalized_citations.append(...)`
RECURSIVE append_matches(_, _)
append_matches(matches, normalized_citations) ==
    IF matches = <<>> THEN normalized_citations
    ELSE append_matches(Tail(matches),
                        IF already_cited(Head(matches), normalized_citations)
                        THEN normalized_citations
                        ELSE Append(normalized_citations,
                                    RegulatoryReference(Head(matches))))

\* `for pattern in citation_patterns:` from pattern number p on
RECURSIVE scan_from(_, _, _)
scan_from(p, content, normalized_citations) ==
    IF p > Len(citation_patterns) THEN normalized_citations
    ELSE scan_from(p + 1, content,
                   append_matches(findall(citation_patterns[p], content, 1),
                                  normalized_citations))

\* "Additional parsing for citations mentioned in content"
scan_citation_patterns(content, normalized_citations) ==
    scan_from(1, content, normalized_citations)

\* a record of a structured citation
Citation(title, url) ==
    [title |-> title, date |-> None, url |-> url,
     type |-> determine_citation_type(title, url)]

\* answer texts and the records present before the scan
ScanWords == {
    <<"G", "D", "P", "R", " ", "A", "r", "t", "i", "c", "l", "e", " ", "1", "7">>,
    <<"g", "d", "p", "r", " ", "a", "r", "t", "i", "c", "l", "e", " ", "1", "7">>,
    <<"S", "O", "X", " ", "S", "e", "c", "t", "i", "o", "n", " ", "3", "0", "2">>,
    <<"S", "E", "C", " ", "1", "0">>,
    <<"S", "E", "C", "-", "1", "0", "-", "2">>,
    <<"R", "e", "g", "u", "l", "a", "t", "i", "o", "n", " ", "S">>,
    <<"a", "n", "d">>,
    <<"s", "e", "e">>
}
TwoReferences == <<"G", "D", "P", "R", " ", "A", "r", "t", "i", "c", "l", "e", " ", "1", "7", " ", "a", "n", "d", " ", "S", "O", "X", " ", "S", "e", "c", "t", "i", "o", "n", " ", "3", "0", "2">>
Contents == Phrases(ScanWords) \cup {TwoReferences}
PriorCitations == {
    <<>>,
    <<Citation(<<"G", "D", "P", "R", " ", "A", "r", "t", "i", "c", "l", "e", " ", "1", "7", " ", "(", "E", "U", ")">>, NoUrl)>>,
    <<Citation(<<"R", "u", "l", "e", " ", "S", "E", "C", " ", "1", "0">>, NoUrl), Citation(<<"S", "a", "r", "b", "a", "n", "e", "s">>, NoUrl)>>
}

\* r'https?://[^\s\]\)]+': the characters of a url are the characters of the
\* texts other than white space, "]" and ")"
UrlChars == Letters \cup Digits \cup {":", "/", ".", "-", "?", "=", "+", "#", "(", ",", "&"}
url_pattern == <<Exact(<<"h", "t", "t", "p">>), Opt({"s"}), Exact(<<":", "/", "/">>), Plus(UrlChars)>>
MaxUrls == 5
TitleUrlLen == 50
kw_http == <<"h", "t", "t", "p">>
Untitled == <<"U", "n", "t", "i", "t", "l", "e", "d", " ", "C", "i", "t", "a", "t", "i", "o", "n">>
LinkPrefix == <<"L", "i", "n", "k", " ", "f", "r", "o", "m", " ", "P", "e", "r", "p", "l", "e", "x", "i", "t", "y", ":", " ">>
Ellipsis == <<".", ".", ".">>

\* the record of a url found in the answer text
Link(url) ==
    [title |-> LinkPrefix \o SubSeq(url, 1, Min(Len(url), TitleUrlLen)) \o Ellipsis,
     date |-> None, url |-> url, type |-> determine_citation_type(<<>>, url)]

\* `for url in urls[:5]:`
links(urls) ==
    [k \in 1..Min(Len(urls), MaxUrls) |-> Link(urls[k])]

\* an entry of tool_outputs[..]['citations'] or of sources: a mapping with
\* title, url ("" when the key is missing or null) and the type the upstream
\* gives it, or something that is not a mapping (entry.get raises)
Entry(title, url, type) == [mapping |-> TRUE, title |-> title, url |-> url, type |-> type]
NotAMapping == [mapping |-> FALSE, title |-> <<>>, url |-> <<>>, type |-> ""]

\* `title = citation.get('title') or ... or "Untitled Citation"`, `url = ... or "#"`
normalized(entry) ==
    Citation(IF entry.title = <<>> THEN Untitled ELSE entry.title,
             IF entry.url = <<>> THEN NoUrl ELSE entry.url)

\* the records appended by the loop over the entries before it ends or raises
RECURSIVE parsed(_)
parsed(entries) ==
    IF entries = <<>> THEN <<>>
    ELSE IF ~Head(entries).mapping THEN <<>>
    ELSE <<normalized(Head(entries))>> \o parsed(Tail(entries))

\* the loop over the entries raises
parse_raises(entries) == \E k \in 1..Len(entries) : ~entries[k].mapping

\* normalized_citations when the structured branch is left
structured(entries) == parsed(entries)

\* message['tool_outputs']: absent, present without a 'citations' list in it,
\* or holding the citation entries
NoToolOutputs == [state |-> "absent", entries |-> <<>>]
ToolOutputs(state, entries) == [state |-> state, entries |-> entries]
\* message['sources']: absent, or the source entries
NoSources == [present |-> FALSE, entries |-> <<>>]
Sources(entries) == [present |-> TRUE, entries |-> entries]
\* message['content']: a str, or null
NoText == [is_text |-> FALSE, text |-> <<>>]
Text(text) == [is_text |-> TRUE, text |-> text]

\* what _make_api_request gives fetch_perplexity_sonar_citations after its
\* retries: an error, or the decoded body
Failure(cause) ==
    [outcome |-> cause, choices |-> "missing", tool_outputs |-> NoToolOutputs,
     sources |-> NoSources, content |-> Text(<<>>)]
Body(choices, tool_outputs, sources, content) ==
    [outcome |-> "ok", choices |-> choices, tool_outputs |-> tool_outputs,
     sources |-> sources, content |-> content]

\* `if 'tool_outputs' in message: ... elif 'sources' in message: ... elif
\* 'content' in message and "http" in message['content']:`
branch(data) ==
    IF data.tool_outputs.state # "absent" THEN "tool_outputs"
    ELSE IF data.sources.present THEN "sources"
    ELSE "content"

\* the entries the chosen structured branch loops over
entries_of(data) ==
    IF branch(data) = "tool_outputs" THEN data.tool_outputs.entries
    ELSE data.sources.entries

\* a fetch that scans the text for references only when no structured branch
\* was taken
fetch_scanning_fallback_only(data) ==
    IF data.outcome # "ok" THEN <<>>
    ELSE IF data.choices # "message" THEN <<>>
    ELSE IF branch(data) \in {"tool_outputs", "sources"}
    THEN structured(entries_of(data))
    ELSE IF ~data.content.is_text THEN <<>>
    ELSE scan_citation_patterns(
             data.content.text,
             IF Contains(data.content.text, kw_http)
             THEN links(findall(url_pattern, data.content.text, 1))
             ELSE <<>>)

\* SonarModule.fetch_perplexity_sonar_citations on an initialised module: the
\* list it returns, whichever except branch was taken
fetch_perplexity_sonar_citations(data) ==
    IF data.outcome # "ok" THEN <<>>
    ELSE IF data.choices # "message" THEN <<>>
    ELSE IF branch(data) \in {"tool_outputs", "sources"}
    THEN IF parse_raises(entries_of(data)) \/ ~data.content.is_text
         THEN structured(entries_of(data))
         ELSE scan_citation_patterns(data.content.text, structured(entries_of(data)))
    ELSE IF ~data.content.is_text THEN <<>>
    ELSE scan_citation_patterns(
             data.content.text,
             IF Contains(data.content.text, kw_http)
             THEN links(findall(url_pattern, data.content.text, 1))
             ELSE <<>>)

\* SonarModule.analyze_query on an initialised module
analyze_query(text, data) ==
    LET found == fetch_perplexity_sonar_citations(data)
    IN  [query |-> text,
         citations_found |-> Len(found),
         citations |-> found,
         citation_types |-> {found[k].type : k \in 1..Len(found)},
         error |-> FALSE]

\* upstream answers
GoodEntry == Entry(<<"G", "D", "P", "R", " ", "A", "r", "t", "i", "c", "l", "e", " ", "1", "7", " ", "(", "E", "U", ")">>, <<"h", "t", "t", "p", "s", ":", "/", "/", "E", "C", ".", "E", "u", "r", "o", "p", "a", ".", "e", "u", "/">>, "SEC")
BareEntry == Entry(<<>>, <<>>, "")
EntryLists == UNION {[1..n -> {GoodEntry, BareEntry, NotAMapping}] : n \in 0..MaxCites}
SourceEntry == Entry(<<"S", "a", "r", "b", "a", "n", "e", "s", "-", "O", "x", "l", "e", "y", " ", "A", "c", "t">>, <<"h", "t", "t", "p", "s", ":", "/", "/", "w", "w", "w", ".", "s", "e", "c", ".", "g", "o", "v", "/", "r">>, "")
SourceLists == UNION {[1..n -> {SourceEntry, NotAMapping}] : n \in 0..MaxCites}
LinkedText == <<"(", "h", "t", "t", "p", "s", ":", "/", "/", "w", "w", "w", ".", "s", "e", "c", ".", "g", "o", "v", "/", "r", ")", " ", "S", "E", "C", " ", "1", "0">>
ManyLinks == <<"h", "t", "t", "p", ":", "/", "/", "a", ".", "b", "/", "1", " ", "h", "t", "t", "p", ":", "/", "/", "a", ".", "b", "/", "2", " ", "h", "t", "t", "p", ":", "/", "/", "a", ".", "b", "/", "3", " ", "h", "t", "t", "p", ":", "/", "/", "a", ".", "b", "/", "4", " ", "h", "t", "t", "p", ":", "/", "/", "a", ".", "b", "/", "5", " ", "h", "t", "t", "p", ":", "/", "/", "a", ".", "b", "/", "6", " ", "h", "t", "t", "p", ":", "/", "/", "a", ".", "b", "/", "7">>
KeywordLink == <<"s", "e", "e", " ", "h", "t", "t", "p", "s", ":", "/", "/", "x", ".", "o", "r", "g", "/", "g", "d", "p", "r">>
AnswerTexts == {<<>>, TwoReferences, LinkedText, ManyLinks, KeywordLink}
Answers ==
    {Failure(cause) : cause \in {"network", "timeout"}}
    \cup {Body(c, NoToolOutputs, NoSources, Text(<<>>)) : c \in {"missing", "malformed"}}
    \cup {Body("message", tool_outputs, sources, content) :
            tool_outputs \in {NoToolOutputs, ToolOutputs("no_citations", <<>>)}
                             \cup {ToolOutputs("citations", e) : e \in EntryLists},
            sources \in {NoSources} \cup {Sources(e) : e \in SourceLists},
            content \in {NoText} \cup {Text(t) : t \in AnswerTexts}}

\* the process with its modules initialised and no request in progress
DirectMain ==
    /\ env = [pinecone_ok |-> TRUE, perplexity_key |-> TRUE]
    /\ endpoint = "chat"
    /\ query = [text |-> <<>>, use_rag |-> TRUE, use_sonar |-> TRUE,
                use_hints |-> TRUE, load_sample_data |-> FALSE]
    /\ Fresh

\* HintModule.generate_next_step_hint as a function of what its retried
\* upstream request does
generate_next_step_hint(upstream) ==
    IF upstream.failures >= MaxAttempts THEN NoNextStepHint
    ELSE next_step_from(upstream.answer)

\* HintModule.get_contextual_hints on an initialised module
get_contextual_hints(text, internal_cites, external_cites, upstream) ==
    HintResponse(text, IF needs_generation(internal_cites, external_cites)
                       THEN generate_next_step_hint(upstream)
                       ELSE None)

DirectInit ==
    /\ DirectMain
    /\ ret = NoRet
    /\ \/ call \in [fn : {"get_hints"}, ready : BOOLEAN, text : HintQueries]
       \/ call \in [fn : {"get_contextual_hints"}, ready : BOOLEAN,
                    text : {<<>>, kw_gdpr, BreachQuestion},
                    internal_cites : {Records("rag", n) : n \in 0..MaxMatches},
                    external_cites : {Records("sonar", n) : n \in 0..MaxCites},
                    upstream : HintUpstreams]
       \/ call \in [fn : {"determine_citation_type"}, title : Titles, url : Urls]
       \/ call \in [fn : {"scan_citation_patterns"}, content : Contents,
                    normalized_citations : PriorCitations]
       \/ call \in [fn : {"analyze_query"}, ready : BOOLEAN,
                    text : {kw_gdpr}, data : Answers]
       \/ call \in [fn : {"query_rag_system"}, ready : BOOLEAN, text : Texts,
                    backend : RagBackends]

\* hint.get_hints(text)
call_get_hints ==
    /\ call.fn = "get_hints"
    /\ ret = NoRet
    /\ ret' = IF call.ready THEN Result("get_hints", get_hints(call.text))
              ELSE Raises("get_hints")
    /\ UNCHANGED <<call, main>>

\* await hint.get_contextual_hints(text, internal_cites, external_cites)
call_get_contextual_hints ==
    /\ call.fn = "get_contextual_hints"
    /\ ret = NoRet
    /\ ret' = IF get_contextual_hints_raises(call.ready)
              THEN Raises("get_contextual_hints")
              ELSE Result("get_contextual_hints",
                          get_contextual_hints(call.text, call.internal_cites,
                                               call.external_cites, call.upstream))
    /\ UNCHANGED <<call, main>>

\* self._determine_citation_type(title, url)
call_determine_citation_type ==
    /\ call.fn = "determine_citation_type"
    /\ ret = NoRet
    /\ ret' = Result("determine_citation_type",
                     determine_citation_type(call.title, call.url))
    /\ UNCHANGED <<call, main>>

\* the scan of the answer text for regulatory references
call_scan_citation_patterns ==
    /\ call.fn = "scan_citation_patterns"
    /\ ret = NoRet
    /\ ret' = Result("scan_citation_patterns",
                     scan_citation_patterns(call.content, call.normalized_citations))
    /\ UNCHANGED <<call, main>>

\* await sonar.analyze_query(text)
call_analyze_query ==
    /\ call.fn = "analyze_query"
    /\ ret = NoRet
    /\ ret' = IF call.ready
              THEN Result("analyze_query", analyze_query(call.text, call.data))
              ELSE Raises("analyze_query")
    /\ UNCHANGED <<call, main>>

\* rag.query_rag_system(text)
call_query_rag_system ==
    /\ call.fn = "query_rag_system"
    /\ ret = NoRet
    /\ ret' = Result("query_rag_system",
                     query_rag_system(call.ready, call.text, call.backend))
    /\ UNCHANGED <<call, main>>

DirectNext ==
    \/ call_get_hints
    \/ call_get_contextual_hints
    \/ call_determine_citation_type
    \/ call_scan_citation_patterns
    \/ call_analyze_query
    \/ call_query_rag_system

DirectSpec == DirectInit /\ [][DirectNext]_vars

\* C15: get_hints returns at most 3 hints, all of one table: the table of the
\* first category the query matches in the order data protection, SEC, SOX,
\* generic fallback; inside data protection a query mentioning `breach` gets
\* the breach table (before transfer, before generic GDPR), so the GDPR breach
\* question returns exactly the 3 breach hints.
C15_FirstCategoryWins ==
    (ret.fn = "get_hints" /\ ~ret.exc) =>
        LET q == lower(call.text)
            dataProtection == ContainsAny(q, {kw_gdpr, kw_data_protection, kw_privacy})
            sec == ContainsAny(q, {kw_sec, kw_securities, kw_filing})
            sox == ContainsAny(q, {kw_sox, kw_sarbanes, kw_internal_controls})
            transfer == ContainsAny(q, {kw_transfer, kw_cross_border})
            tables == {BreachHints, TransferHints, GdprHints, SecHints,
                       SoxReportingHints, SoxControlHints, GenericHints}
        IN /\ Len(ret.value) <= 3
           /\ \E table \in tables :
                 \A k \in 1..Len(ret.value) : \E j \in 1..Len(table) : ret.value[k] = table[j]
           /\ dataProtection => ret.value \in {BreachHints, TransferHints, GdprHints}
           /\ (dataProtection /\ Contains(q, kw_breach)) => ret.value = BreachHints
           /\ (dataProtection /\ ~Contains(q, kw_breach) /\ transfer)
                 => ret.value = TransferHints
           /\ (~dataProtection /\ sec) => ret.value = SecHints
           /\ (~dataProtection /\ ~sec /\ sox)
                 => ret.value \in {SoxReportingHints, SoxControlHints}
           /\ (~dataProtection /\ ~sec /\ ~sox) => ret.value = GenericHints
           /\ call.text = BreachQuestion => ret.value = BreachHints

C15_Witness ==
    /\ ret.fn = "get_hints"
    /\ ~ret.exc
    /\ Contains(lower(call.text), kw_gdpr)
    /\ Contains(lower(call.text), kw_breach)
    /\ call.text # BreachQuestion
    /\ ret.value = BreachHints

(* ============================== properties ============================== *)
Count(name) == Cardinality({k \in 1..Len(stream) : stream[k].name = name})
Blank(text) == \A k \in 1..Len(text) : text[k] = " "
Launched(kind) == \E k \in 1..Len(tasks) : tasks[k] = kind
Selected(kind) == IF kind = "rag" THEN query.use_rag /\ rag_initialized
                  ELSE query.use_sonar /\ sonar_initialized
Progress(kind) == IF kind = "rag" THEN "Internal citations retrieved"
                  ELSE "External citations retrieved"
TaskEvents(kind) == {k \in 1..Len(stream) :
                        stream[k].name \in {Progress(kind), ModuleError(kind)}}
TerminalCount == Count("completed") + Count("Internal server error")
ChatDone == endpoint = "chat" /\ pc = "done" /\ ~Blank(query.text)
Completed == final_response.status = "completed"
\* the search of a launched task failed / answered, as its backend decides
SearchFails(kind) == /\ Launched(kind)
                     /\ IF kind = "rag" THEN ~rag_backend.ok
                        ELSE sonar_upstream.failures = MaxAttempts
SearchSucceeds(kind) == Launched(kind) /\ ~SearchFails(kind)
Found(kind) == IF kind = "rag" THEN Records("rag", rag_backend.n)
               ELSE Records("sonar", sonar_upstream.n)
Payload(kind) == IF kind = "rag" THEN final_response.internal_citations
                 ELSE final_response.external_citations
Other(kind) == IF kind = "rag" THEN "sonar" ELSE "rag"
Kinds == {"rag", "sonar"}
FallbackHints == {ReviewHint, NoNextStepHint, NoContextualHint, NoHints}

\* C1: a /chat run of a non-blank query never holds more than one terminal
\* event (completed or Internal server error), and once the run is over it
\* holds exactly one.
C1_ExactlyOneTerminal ==
    endpoint = "chat" =>
        /\ TerminalCount <= 1
        /\ ChatDone => TerminalCount = 1
        /\ TerminalCount = 1 => pc = "done"

C1_Witness ==
    /\ ChatDone
    /\ Len(stream) > 1
    /\ stream[Len(stream)].name = "completed"
    /\ TerminalCount = 1

\* C2: in a finished /chat run, a launched task whose search failed has
\* exactly one `<kind> module error` event, its list in the terminal payload
\* is empty, the other task's records are intact, and the terminal event is
\* `completed`.
C2_TaskErrorIsolated ==
    ChatDone =>
        \A kind \in Kinds :
            SearchFails(kind) =>
                /\ Count(ModuleError(kind)) = 1
                /\ Completed
                /\ Payload(kind) = <<>>
                /\ SearchSucceeds(Other(kind)) => Payload(Other(kind)) = Found(Other(kind))

\* C3: in a finished /chat run, a launched task whose search succeeded with N
\* records has one progress event of its kind with count N, the terminal
\* payload carries those N records, and the terminal event is `completed`.
C3_SuccessReported ==
    ChatDone =>
        \A kind \in Kinds :
            SearchSucceeds(kind) =>
                /\ Count(Progress(kind)) = 1
                /\ \E k \in 1..Len(stream) :
                      stream[k] = Event(Progress(kind), Len(Found(kind)))
                /\ Completed
                /\ Payload(kind) = Found(kind)

\* C4: in a finished /chat run with both tasks launched, the stream holds a
\* Retrieval event and a CitationSearch event, and every Retrieval event comes
\* before every CitationSearch event.
C4_RetrievalBeforeCitationSearch ==
    (ChatDone /\ Launched("rag") /\ Launched("sonar")) =>
        /\ TaskEvents("rag") # {}
        /\ TaskEvents("sonar") # {}
        /\ \A a \in TaskEvents("rag"), b \in TaskEvents("sonar") : a < b

\* C5: a blank (empty or whitespace-only) query text is answered 400 by /chat
\* and by /query, with no stream event and no retrieval, citation-search or
\* hint call.
C5_BlankRejected ==
    Blank(query.text) =>
        /\ pc \in {"idle", "done"}
        /\ pc = "done" => http_status = 400
        /\ stream = <<>>
        /\ tasks = <<>>
        /\ rag_state = "none"
        /\ sonar_state = "none"
        /\ hint_state = "none"

C5_Witness ==
    /\ Blank(query.text)
    /\ Len(query.text) > 0
    /\ endpoint = "query"
    /\ pc = "done"
    /\ http_status = 400

\* C6: in a finished /chat run where both launched searches failed, hints were
\* requested and the hint generator is ready, the terminal event is
\* `completed`, both citation lists are empty and next_step_hint is a fallback
\* sentence, not null.
C6_BothFailStillCompleted ==
    (/\ ChatDone
     /\ SearchFails("rag")
     /\ SearchFails("sonar")
     /\ query.use_hints
     /\ hint_initialized) =>
        /\ Completed
        /\ final_response.internal_citations = <<>>
        /\ final_response.external_citations = <<>>
        /\ final_response.next_step_hint \in FallbackHints

\* C7: in /chat, when both capabilities are selected and ready, the citation search has
\* been started by the time the retrieval has finished (the two are in flight
\* together).
C7_BothInFlight ==
    (/\ endpoint = "chat"
     /\ Selected("rag")
     /\ Selected("sonar")
     /\ rag_state = "settled") =>
        sonar_state \in {"running", "settled"}

\* C8: full barrier: while a launched task has not settled, the stream holds no
\* task event, no citation list is filled and hint generation has not
\* started; a settled result stays out of the stream until gather has returned.
C8_FullBarrier ==
    LET allSettled == /\ Launched("rag") => rag_state = "settled"
                      /\ Launched("sonar") => sonar_state = "settled"
        emitted == TaskEvents("rag") \cup TaskEvents("sonar")
    IN /\ (emitted # {} \/ hint_state # "none" \/ pc \in {"hints", "await_hint", "final"})
             => allSettled
       /\ pc \in {"gather", "await_gather"} =>
             /\ emitted = {}
             /\ internal_citations = <<>>
             /\ external_citations = <<>>

C8_Witness ==
    /\ endpoint = "chat"
    /\ Launched("sonar")
    /\ sonar_state = "settled"
    /\ sonar_attempts > 1
    /\ TaskEvents("sonar") # {}
    /\ hint_state = "running"

\* C9: in a finished /chat run, a search was invoked exactly when its option
\* flag and its readiness flag are both true; a search that was not invoked
\* leaves no event of its kind and an empty list in the terminal payload, and
\* the terminal event is `completed`.
C9_InvokedIffSelected ==
    ChatDone =>
        /\ (rag_state = "settled") <=> (query.use_rag /\ rag_initialized)
        /\ (sonar_state \in {"running", "settled"})
              <=> (query.use_sonar /\ sonar_initialized)
        /\ rag_state = "none" =>
              /\ TaskEvents("rag") = {}
              /\ Completed
              /\ final_response.internal_citations = <<>>
        /\ sonar_state \notin {"running", "settled"} =>
              /\ TaskEvents("sonar") = {}
              /\ Completed
              /\ final_response.external_citations = <<>>

\* C10: in a finished /chat run where hints were requested, the hint generator
\* is ready, at least one citation was gathered and every attempt of the hint
\* request failed, the stream holds the hint error status instead of `Next
\* step hint generated`, and next_step_hint is a fallback sentence.
C10_HintFailureReported ==
    (/\ ChatDone
     /\ query.use_hints
     /\ hint_initialized
     /\ Len(internal_citations) + Len(external_citations) > 0
     /\ hint_state = "settled"
     /\ hint_upstream.failures = MaxAttempts) =>
        /\ Count("Error generating hints") = 1
        /\ Count("Next step hint generated") = 0
        /\ Completed
        /\ final_response.next_step_hint \in FallbackHints
\* C11: when hints are requested, the hint generator is ready and both citation
\* lists handed to get_contextual_hints are empty, the returned next_step_hint
\* is null, no upstream hint request was attempted, and basic_hints is not
\* empty.
C11_NoCitationsNoGeneration ==
    (/\ query.use_hints
     /\ hint_initialized
     /\ hint_state = "settled"
     /\ internal_citations = <<>>
     /\ external_citations = <<>>) =>
        /\ hint_response.next_step_hint = None
        /\ hint_attempts = 0
        /\ hint_response.basic_hints # <<>>

C11_Witness ==
    /\ endpoint = "chat"
    /\ query.use_hints
    /\ Launched("sonar")
    /\ sonar_state = "settled"
    /\ external_citations = <<>>
    /\ hint_state = "settled"
    /\ hint_response.present
    /\ hint_response.next_step_hint = None
    /\ pc = "done"
\* C12: get_contextual_hints on a ready hint generator never raises and returns
\* basic_hints (not empty), next_step_hint and the query; next_step_hint is
\* null only when neither list holds a citation, and with at least one
\* citation it is a sentence, also when every attempt of the upstream request
\* failed.
C12_ContextualHintsTotal ==
    (ret.fn = "get_contextual_hints" /\ call.ready) =>
        /\ ~ret.exc
        /\ ret.value.present
        /\ ret.value.query = call.text
        /\ ret.value.basic_hints # <<>>
        /\ ret.value.next_step_hint = None
              => (call.internal_cites = <<>> /\ call.external_cites = <<>>)
        /\ (call.internal_cites # <<>> \/ call.external_cites # <<>>)
              => ret.value.next_step_hint \in {GeneratedHint, ReviewHint, NoNextStepHint}
        /\ (/\ call.internal_cites # <<>> \/ call.external_cites # <<>>
            /\ call.upstream.failures = MaxAttempts)
              => ret.value.next_step_hint = NoNextStepHint

C12_Witness ==
    /\ ret.fn = "get_contextual_hints"
    /\ call.ready
    /\ call.internal_cites # <<>>
    /\ call.external_cites = <<>>
    /\ call.upstream.failures = MaxAttempts
    /\ ret.value.next_step_hint = NoNextStepHint

\* C13: the citation type is decided by the first check that matches, in the
\* order SEC title keywords, GDPR title keywords, SOX title keywords, url
\* domain (sec.gov gives SEC, europa.eu gives GDPR), compliance title
\* keywords, and is External Citation when none matches; every (title, url)
\* gets one of the five types.
C13_FirstMatchWins ==
    ret.fn = "determine_citation_type" =>
        LET t == lower(call.title)
            u == lower(call.url)
            sec_kw == ContainsAny(t, SecKeywords)
            gdpr_kw == ContainsAny(t, GdprKeywords)
            sox_kw == ContainsAny(t, SoxKeywords)
            title_kw == sec_kw \/ gdpr_kw \/ sox_kw
            sec_url == Contains(u, dom_sec_gov)
            eu_url == Contains(u, dom_europa_eu)
            comp_kw == ContainsAny(t, ComplianceKeywords)
        IN  /\ ~ret.exc
            /\ ret.value \in CitationTypes
            /\ sec_kw => ret.value = "SEC"
            /\ (~sec_kw /\ gdpr_kw) => ret.value = "GDPR"
            /\ (~sec_kw /\ ~gdpr_kw /\ sox_kw) => ret.value = "SOX"
            /\ (~title_kw /\ sec_url) => ret.value = "SEC"
            /\ (~title_kw /\ ~sec_url /\ eu_url) => ret.value = "GDPR"
            /\ (~title_kw /\ ~sec_url /\ ~eu_url /\ comp_kw) => ret.value = "Compliance"
            /\ (~title_kw /\ ~sec_url /\ ~eu_url /\ ~comp_kw)
                  => ret.value = "External Citation"

C13_Witness ==
    /\ ret.fn = "determine_citation_type"
    /\ call.title = <<"S", "E", "C", " ", "G", "D", "P", "R">>
    /\ call.url = <<"h", "t", "t", "p", "s", ":", "/", "/", "E", "C", ".", "E", "u", "r", "o", "p", "a", ".", "e", "u", "/">>
    /\ ret.value = "SEC"

\* every match of a citation pattern in a text
AllMatches(content) ==
    UNION {{findall(citation_patterns[p], content, 1)[k] :
                k \in 1..Len(findall(citation_patterns[p], content, 1))} :
           p \in 1..Len(citation_patterns)}

\* C14: the scan keeps the records it finds and appends records titled
\* "Regulatory Reference: <match>" only: one for a pattern match that no title
\* present at that moment contains (ignoring case), none for a match that one
\* contains; so every match ends up contained in a title, no two appended
\* records carry the same match, and the text "GDPR Article 17 and SOX
\* Section 302" without earlier records gives exactly these two records.
C14_ScanAppendsDistinctReferences ==
    ret.fn = "scan_citation_patterns" =>
        LET prior == call.normalized_citations
            after == ret.value
            added == (Len(prior) + 1)..Len(after)
        IN  /\ Len(after) >= Len(prior)
            /\ SubSeq(after, 1, Len(prior)) = prior
            /\ \A k \in added :
                  /\ \E m \in AllMatches(call.content) :
                        after[k] = RegulatoryReference(m)
                  /\ \A j \in 1..(k - 1) :
                        ~Contains(lower(after[j].title),
                                  lower(SubSeq(after[k].title,
                                               Len(ReferencePrefix) + 1,
                                               Len(after[k].title))))
            /\ \A m \in AllMatches(call.content) : already_cited(m, after)
            /\ \A m \in AllMatches(call.content) :
                  already_cited(m, prior)
                      => \A k \in added : after[k] # RegulatoryReference(m)
            /\ \A j, k \in added : j # k => after[j].title # after[k].title
            /\ (call.content = TwoReferences /\ prior = <<>>)
                  => after = <<RegulatoryReference(<<"G", "D", "P", "R", " ", "A", "r", "t", "i", "c", "l", "e", " ", "1", "7">>),
                               RegulatoryReference(<<"S", "O", "X", " ", "S", "e", "c", "t", "i", "o", "n", " ", "3", "0", "2">>)>>

C14_Witness ==
    /\ ret.fn = "scan_citation_patterns"
    /\ call.content = TwoReferences
    /\ call.normalized_citations = <<>>
    /\ Len(ret.value) = 2
    /\ ret.value[1].title = <<"R", "e", "g", "u", "l", "a", "t", "o", "r", "y", " ", "R", "e", "f", "e", "r", "e", "n", "c", "e", ":", " ", "G", "D", "P", "R", " ", "A", "r", "t", "i", "c", "l", "e", " ", "1", "7">>
    /\ ret.value[2].title = <<"R", "e", "g", "u", "l", "a", "t", "o", "r", "y", " ", "R", "e", "f", "e", "r", "e", "n", "c", "e", ":", " ", "S", "O", "X", " ", "S", "e", "c", "t", "i", "o", "n", " ", "3", "0", "2">>

\* the upstream request failed, or its answer is malformed: no message where
\* one is announced, an entry that is not a mapping, a content that is no text
Degraded(data) ==
    \/ data.outcome \in {"network", "timeout"}
    \/ data.outcome = "ok" /\ data.choices = "malformed"
    \/ /\ data.outcome = "ok"
       /\ data.choices = "message"
       /\ \/ branch(data) \in {"tool_outputs", "sources"} /\ parse_raises(entries_of(data))
          \/ ~data.content.is_text

\* C18: analyze_query on an initialised citation-search module never raises,
\* and when the upstream request fails or its answer is malformed, a failure
\* part-way through parsing included, the citation list it returns is empty.
C18_DegradesToEmpty ==
    (ret.fn = "analyze_query" /\ call.ready) =>
        /\ ~ret.exc
        /\ Degraded(call.data) => ret.value.citations = <<>>

\* C19: query_rag_system never raises; it returns the empty list when the
\* module is not initialised, when the query is empty or only white space, or
\* when the embedding or the index lookup fails, and otherwise one record for
\* each match of the lookup.
C19_SearchNeverRaises ==
    ret.fn = "query_rag_system" =>
        /\ ~ret.exc
        /\ (~call.ready \/ Blank(call.text) \/ ~call.backend.ok) => ret.value = <<>>
        /\ (call.ready /\ ~Blank(call.text) /\ call.backend.ok) =>
              /\ Len(ret.value) = call.backend.n
              /\ \A j, k \in 1..Len(ret.value) : j # k => ret.value[j] # ret.value[k]

C19_Witness ==
    /\ ret.fn = "query_rag_system"
    /\ call.ready
    /\ call.text = <<" ", " ">>
    /\ call.backend = [ok |-> TRUE, n |-> MaxMatches]
    /\ ret.value = <<>>

\* C20: an upstream request of the citation search and of the hint generator
\* is attempted at most MaxAttempts (3) times; while it is retried every
\* attempt made so far has failed; the first attempt that succeeds is the last
\* one and its response is what the call returns; and the call gives its
\* failure result only when MaxAttempts attempts in a row have failed.
C20_AtMostThreeAttempts ==
    /\ sonar_attempts <= MaxAttempts
    /\ hint_attempts <= MaxAttempts
    /\ sonar_state = "running" =>
          sonar_attempts <= sonar_upstream.failures /\ sonar_attempts < MaxAttempts
    /\ hint_state = "running" =>
          hint_attempts <= hint_upstream.failures /\ hint_attempts < MaxAttempts
    /\ (sonar_state = "settled" /\ sonar_attempts > 0) =>
          IF sonar_upstream.failures < MaxAttempts
          THEN /\ sonar_attempts = sonar_upstream.failures + 1
               /\ sonar_result = Returned(Records("sonar", sonar_upstream.n))
          ELSE /\ sonar_attempts = MaxAttempts
               /\ sonar_result = Returned(<<>>)
    /\ (hint_state = "settled" /\ hint_attempts > 0) =>
          IF hint_upstream.failures < MaxAttempts
          THEN /\ hint_attempts = hint_upstream.failures + 1
               /\ hint_response.next_step_hint = next_step_from(hint_upstream.answer)
          ELSE /\ hint_attempts = MaxAttempts
               /\ hint_response.next_step_hint = NoNextStepHint

C20_Witness ==
    /\ sonar_state = "settled"
    /\ sonar_upstream.failures = MaxAttempts - 1
    /\ sonar_attempts = MaxAttempts
    /\ sonar_result = Returned(Records("sonar", MaxCites))
    /\ hint_state = "settled"
    /\ hint_upstream.failures = MaxAttempts
    /\ hint_attempts = MaxAttempts

\* what a request gave: this one and the one before it
ThisRun == [endpoint |-> endpoint, http_status |-> http_status, stream |-> stream,
            final_response |-> final_response]
Last(events) == events[Len(events)]
EndsWith(events, name) == events # <<>> /\ Last(events).name = name
IsPrefix(s, t) == Len(s) <= Len(t) /\ SubSeq(t, 1, Len(s)) = s

\* C16: a request repeated with the same text, the same options and the same
\* readiness flags to the same endpoint, the backends answering as before,
\* yields its events in the same order as the first time and ends with the
\* same event sequence, the same payload and the same HTTP status.
C16_SameInputsSameRun ==
    (previous.ran /\ endpoint = previous.endpoint) =>
        /\ IsPrefix(stream, previous.stream)
        /\ pc = "done" =>
              /\ stream = previous.stream
              /\ final_response = previous.final_response
              /\ http_status = previous.http_status

C16_Witness ==
    /\ previous.ran
    /\ endpoint = "chat"
    /\ previous.endpoint = "chat"
    /\ pc = "done"
    /\ sonar_upstream.failures > 0
    /\ final_response.status = "completed"
    /\ final_response.external_citations # <<>>
    /\ final_response.next_step_hint = GeneratedHint
    /\ final_response = previous.final_response
    /\ Len(stream) > 2

\* C17: the same request served by /chat and by /query, the backends answering
\* alike: a blank query is rejected by both; otherwise /query fails (500)
\* exactly when the stream ends with the fatal event and answers (200) exactly
\* when it ends with the completed payload, and then query, internal_citations,
\* external_citations and summary of the two are equal and hints.next_step_hint
\* of /query is next_step_hint of the payload.
C17_SameStateMachine ==
    (previous.ran /\ pc = "done" /\ endpoint # previous.endpoint) =>
        LET streamed == IF endpoint = "chat" THEN ThisRun ELSE previous
            returned == IF endpoint = "query" THEN ThisRun ELSE previous
        IN  IF Blank(query.text)
            THEN /\ streamed.http_status = 400
                 /\ returned.http_status = 400
                 /\ streamed.stream = <<>>
            ELSE /\ returned.http_status \in {200, 500}
                 /\ returned.http_status = 500
                       <=> EndsWith(streamed.stream, "Internal server error")
                 /\ returned.http_status = 200
                       <=> EndsWith(streamed.stream, "completed")
                 /\ returned.http_status = 200 =>
                       /\ returned.final_response.query = streamed.final_response.query
                       /\ returned.final_response.internal_citations
                             = streamed.final_response.internal_citations
                       /\ returned.final_response.external_citations
                             = streamed.final_response.external_citations
                       /\ returned.final_response.summary
                             = streamed.final_response.summary
                       /\ returned.final_response.hints.next_step_hint
                             = streamed.final_response.next_step_hint

C17_Witness ==
    /\ previous.ran
    /\ previous.endpoint = "chat"
    /\ endpoint = "query"
    /\ pc = "done"
    /\ http_status = 200
    /\ final_response.external_citations # <<>>
    /\ final_response.external_citations = previous.final_response.external_citations
    /\ final_response.hints.next_step_hint = NoNextStepHint
    /\ previous.final_response.next_step_hint = NoNextStepHint

\* C21: once a terminal event (the completed payload or the fatal error event)
\* is in the stream, no step of the run adds an event; so nothing follows
\* completed, the fatal event included.
C21_NothingAfterTerminal ==
    [][TerminalCount > 0 => stream' = stream]_vars

C21_Witness ==
    /\ ChatDone
    /\ EndsWith(stream, "Internal server error")
    /\ Len(stream) > 1
    /\ Count("completed") = 0

\* C22: when every step that can be taken is taken (each capability call
\* settles), an accepted /chat run reaches its end with its terminal event in
\* the stream.
C22_Terminates ==
    (endpoint = "chat" /\ pc # "idle" /\ ~Blank(query.text))
        ~> (pc = "done" /\ TerminalCount = 1)

C22_Witness ==
    /\ ChatDone
    /\ sonar_upstream.failures = MaxAttempts
    /\ sonar_attempts = MaxAttempts
    /\ hint_state = "none"
    /\ TerminalCount = 1

\* the records of the primary branches among the returned ones
PrimaryRecords(found) ==
    SelectSeq(found, LAMBDA c : c.type # "Regulatory Reference")
\* a received answer whose message, entries and content are well formed
WellFormed(data) ==
    /\ data.outcome = "ok"
    /\ data.choices = "message"
    /\ data.content.is_text
    /\ ~parse_raises(data.tool_outputs.entries)
    /\ ~parse_raises(data.sources.entries)
Mapped(entries) == [k \in 1..Len(entries) |-> normalized(entries[k])]

\* C23: the primary records of a well-formed answer come from one branch: from
\* the tool-output citations when the answer has some; otherwise from the
\* sources list when it has one, one record for each source entry; otherwise
\* from the first urls of the answer text, MaxUrls (5) at most.
C23_OneBranchByPrecedence ==
    (ret.fn = "analyze_query" /\ call.ready /\ WellFormed(call.data)) =>
        LET data == call.data
            primary == PrimaryRecords(ret.value.citations)
        IN  /\ data.tool_outputs.entries # <<>>
                  => primary = Mapped(data.tool_outputs.entries)
            /\ (data.tool_outputs.entries = <<>> /\ data.sources.present)
                  => primary = Mapped(data.sources.entries)
            /\ (data.tool_outputs.entries = <<>> /\ ~data.sources.present)
                  => /\ primary = links(findall(url_pattern, data.content.text, 1))
                     /\ Len(primary) <= MaxUrls

\* C24: every record of the primary branches (tool outputs, sources, urls of
\* the text) that analyze_query returns has as its type the classification of
\* its own title and url, whatever type the upstream gave the entry.
C24_TypeIsOwnClassification ==
    (ret.fn = "analyze_query" /\ call.ready) =>
        \A k \in 1..Len(PrimaryRecords(ret.value.citations)) :
            LET c == PrimaryRecords(ret.value.citations)[k]
            IN  c.type = determine_citation_type(c.title, c.url)

HintEvents == {k \in 1..Len(stream) :
                  stream[k].name \in {"Next step hint generated", "Error generating hints"}}
TerminalEvents == {k \in 1..Len(stream) :
                      stream[k].name \in {"completed", "Internal server error"}}

\* C26: a /chat stream holds at most one Retrieval event, one CitationSearch
\* event, one hint event and one terminal event, in this order: the Retrieval
\* event before the CitationSearch event, both before the hint event, all of
\* them before the terminal event; and a hint event is there only if hints
\* were requested and the hint generator is ready.
C26_FixedEventOrder ==
    endpoint = "chat" =>
        /\ \A kind \in Kinds : Cardinality(TaskEvents(kind)) <= 1
        /\ Cardinality(HintEvents) <= 1
        /\ Cardinality(TerminalEvents) <= 1
        /\ \A a \in TaskEvents("rag"), b \in TaskEvents("sonar") : a < b
        /\ \A a \in TaskEvents("rag") \cup TaskEvents("sonar"), h \in HintEvents : a < h
        /\ \A a \in TaskEvents("rag") \cup TaskEvents("sonar") \cup HintEvents,
              z \in TerminalEvents : a < z
        /\ HintEvents # {} => (query.use_hints /\ hint_initialized)

C26_Witness ==
    /\ ChatDone
    /\ query.load_sample_data
    /\ TaskEvents("sonar") # {}
    /\ HintEvents # {}
    /\ \A a \in TaskEvents("sonar"), h \in HintEvents : a < h
    /\ EndsWith(stream, "completed")

C29_SummaryCounts ==
    (pc = "done" /\ final_response # NoResponse) =>
        /\ final_response.summary.internal_count = Len(final_response.internal_citations)
        /\ final_response.summary.external_count = Len(final_response.external_citations)
        /\ final_response.summary.total_citations =
               Len(final_response.internal_citations)
               + Len(final_response.external_citations)
        /\ \A k \in 1..Len(stream) :
               /\ stream[k].name = Progress("rag") =>
                      stream[k].count = final_response.summary.internal_count
               /\ stream[k].name = Progress("sonar") =>
                      stream[k].count = final_response.summary.external_count

C29_Witness ==
    /\ ChatDone
    /\ final_response # NoResponse
    /\ Count(Progress("sonar")) = 1
    /\ final_response.summary.external_count = MaxCites
    /\ final_response.summary.total_citations = MaxCites

\* C30: /analyze-compliance answers an unknown document id with 404 and asks
\* no capability; otherwise compliant is true exactly when no issue was
\* found, the score (in tenths) is BaseScore less the number of issues, at
\* most MaxPenalty, so between BaseScore - MaxPenalty and BaseScore, and an
\* `Analysis error` issue makes the answer not compliant.
C30_CompliantIffNoIssue ==
    (endpoint = "analyze-compliance" /\ pc = "done") =>
        IF query.document_id \notin uploaded_documents
        THEN /\ http_status = 404
             /\ final_response = NoResponse
             /\ rag_state = "none"
             /\ sonar_state = "none"
        ELSE LET n == Len(final_response.issues)
             IN  /\ http_status = 200
                 /\ final_response.compliant <=> (n = 0)
                 /\ final_response.score = BaseScore - Min(n, MaxPenalty)
                 /\ final_response.score \in (BaseScore - MaxPenalty)..BaseScore
                 /\ (\E k \in 1..n : final_response.issues[k] = AnalysisError)
                        => ~final_response.compliant

C30_Witness ==
    /\ endpoint = "analyze-compliance"
    /\ pc = "done"
    /\ http_status = 200
    /\ rag_state = "settled"
    /\ final_response.issues = <<AnalysisError>>
    /\ final_response.score = PassScore
    /\ ~final_response.compliant
====
